---------------------------- MODULE Spec2Model ----------------------------
(***************************************************************************)
(* Model of extras/kdf-keys/pbkdf2.c (Tomb): the command line tool that    *)
(* reads a passphrase from stdin, decodes a hexadecimal salt, derives a    *)
(* key with gcry_kdf_derive and prints it in hexadecimal.                  *)
(*                                                                         *)
(* Platform of the model: the build the source names (gcc, glibc) on       *)
(* x86-64 Linux: char is signed and 8 bits wide, int and unsigned int are  *)
(* 32 bits wide and stored little-endian, a pointer is 8 bytes, unaligned  *)
(* stores are permitted.  Undefined behaviour (the read of the             *)
(* uninitialised result_len, the store past the end of the salt buffer)    *)
(* is a nondeterministic choice among the outcomes of such a build.        *)
(*                                                                         *)
(* Strings (argv) are sequences of one-character strings; bytes are        *)
(* integers 0..255; the heap is a sequence of blocks and a pointer is an   *)
(* index into it (0 is NULL).                                              *)
(***************************************************************************)
EXTENDS Integers, Sequences, FiniteSets, TLC

\* ------------------------------------------------------------------ bounds

\* longest salt_hex argument drawn (argv[1])
MaxSaltLen == 3
\* longest short stdin input drawn, in bytes
MaxInputLen == 3
\* longest byte sequence drawn for the hex codec harness
MaxHexBytes == 2
\* stdin inputs that make the passphrase buffer grow have
\* BLOCK_SIZE + 1 .. BLOCK_SIZE + MaxOver bytes
MaxOver == 2

\* ------------------------------------------------------- program constants

\* #define BLOCK_SIZE 40
BLOCK_SIZE == 40
\* <stdio.h> EOF, what getchar returns at end of stream
EOF == -1
\* sizeof(unsigned char*), the element size of result's calloc
SIZEOF_PTR == 8
\* sizeof(unsigned int), the width of the store sscanf makes for %x
SIZEOF_UINT == 4
\* a byte of storage that realloc added and nothing has written yet
INDETERMINATE == 256

NULL == 0

\* ------------------------------------------------------------ C library

Range(s) == { s[i] : i \in 1..Len(s) }

\* All sequences over S of length 0..n
SeqsUpTo(S, n) == UNION { [1..k -> S] : k \in 0..n }

\* n copies of x
Fill(n, x) == [i \in 1..n |-> x]

\* the digits printf's %x produces, in value order
LowerHex == << "0","1","2","3","4","5","6","7","8","9","a","b","c","d","e","f" >>
\* the further digits scanf's %x accepts
UpperHex == << "A","B","C","D","E","F" >>
DecDigits == << "0","1","2","3","4","5","6","7","8","9" >>

\* isxdigit
IsXDigit(ch) == ch \in Range(LowerHex) \cup Range(UpperHex)
\* isdigit
IsDigit(ch) == ch \in Range(DecDigits)
\* isspace
IsSpace(ch) == ch \in {" ", "\t", "\n", "\r"}

\* value of one hexadecimal digit
XDigitVal(ch) ==
    IF ch \in Range(LowerHex)
    THEN (CHOOSE i \in 1..16 : LowerHex[i] = ch) - 1
    ELSE 9 + (CHOOSE i \in 1..6 : UpperHex[i] = ch)

\* scanf skips white space before a conversion; it does not count in the width
RECURSIVE SkipSpace(_)
SkipSpace(s) ==
    IF s # << >> /\ IsSpace(Head(s)) THEN SkipSpace(Tail(s)) ELSE s

\* longest prefix of s of at most w hexadecimal digits
RECURSIVE TakeXDigits(_, _)
TakeXDigits(s, w) ==
    IF w > 0 /\ s # << >> /\ IsXDigit(Head(s))
    THEN << Head(s) >> \o TakeXDigits(Tail(s), w - 1)
    ELSE << >>

\* longest prefix of s of decimal digits
RECURSIVE TakeDigits(_)
TakeDigits(s) ==
    IF s # << >> /\ IsDigit(Head(s))
    THEN << Head(s) >> \o TakeDigits(Tail(s))
    ELSE << >>

\* value of a sequence of digits in the base given
RECURSIVE DigitsVal(_, _)
DigitsVal(ds, base) ==
    IF ds = << >> THEN 0
    ELSE DigitsVal(SubSeq(ds, 1, Len(ds) - 1), base) * base + XDigitVal(ds[Len(ds)])

\* sscanf(s, "%<w>x", &val): white space is skipped, an optional sign counts
\* in the width, then at most the rest of the width in hexadecimal digits is
\* read.  ret is EOF when the input ends before the item, 0 when the item
\* has no digit (nothing is stored), 1 when a value is stored: val is the
\* value of the digits and neg says that a minus sign came before them, in
\* which case the value stored is val negated in unsigned arithmetic, as
\* strtoul does.  (The optional 0x prefix is not modelled: no string drawn
\* contains an x.)
ScanX(s, w) ==
    LET t == SkipSpace(s) IN
    IF t = << >> THEN [ret |-> EOF, val |-> 0, neg |-> FALSE]
    ELSE LET sign == Head(t) \in {"+", "-"}
             ds   == TakeXDigits(IF sign THEN Tail(t) ELSE t,
                                 IF sign THEN w - 1 ELSE w)
         IN IF ds = << >> THEN [ret |-> 0, val |-> 0, neg |-> FALSE]
            ELSE [ret |-> 1, val |-> DigitsVal(ds, 16), neg |-> Head(t) = "-"]

\* sscanf(s, "%d", &val): as ScanX with decimal digits and no width.  (The
\* strings drawn are short, so the value is always in the range of int.)
ScanD(s) ==
    LET t == SkipSpace(s) IN
    IF t = << >> THEN [ret |-> EOF, val |-> 0]
    ELSE LET sign == Head(t) \in {"+", "-"}
             ds   == TakeDigits(IF sign THEN Tail(t) ELSE t)
             v    == DigitsVal(ds, 10)
         IN IF ds = << >> THEN [ret |-> 0, val |-> 0]
            ELSE [ret |-> 1, val |-> IF Head(t) = "-" THEN 0 - v ELSE v]

\* ------------------------------------------------------------ hex codec

\* printf("%x", v): the hexadecimal digits of v, lowercase, no padding
RECURSIVE FormatX(_)
FormatX(v) ==
    IF v < 16 THEN << LowerHex[v + 1] >>
    ELSE FormatX(v \div 16) \o << LowerHex[(v % 16) + 1] >>

\* printf("%x", v) in the place of printf("%02x", v): the zero padding lost
Format02x_NoPad(v) == FormatX(v)

\* printf("%02x", v): FormatX padded on the left with zeros to two characters
Format02x(v) ==
    LET ds == FormatX(v) IN IF Len(ds) < 2 THEN << "0" >> \o ds ELSE ds

\* print_hex(buf, len): what it writes to stdout, the newline included
RECURSIVE print_hex(_, _)
print_hex(buf, len) ==
    IF len <= 0 THEN << "\n" >>
    ELSE Format02x(buf[1]) \o print_hex(Tail(buf), len - 1)

\* A buffer being written through a pointer: data is the block's bytes
\* (data[i + 1] is the byte at offset i), oob the offsets past the end of the
\* block that were written.
StoreByte(m, off, b) ==
    IF off < Len(m.data)
    THEN [m EXCEPT !.data[off + 1] = b]
    ELSE [m EXCEPT !.oob = @ \cup {off}]

\* the SIZEOF_UINT bytes of the unsigned int v, low byte first
RECURSIVE UIntBytes(_, _)
UIntBytes(v, n) ==
    IF n = 0 THEN << >> ELSE << v % 256 >> \o UIntBytes(v \div 256, n - 1)

\* the bytes of -x in unsigned arithmetic, from the bytes bs of x (low byte
\* first): every byte inverted, plus one, the carry dropped at the top
RECURSIVE NegBytes(_, _)
NegBytes(bs, carry) ==
    IF bs = << >> THEN << >>
    ELSE LET t == (255 - Head(bs)) + carry
         IN << t % 256 >> \o NegBytes(Tail(bs), t \div 256)

RECURSIVE StoreBytes(_, _, _)
StoreBytes(m, off, bs) ==
    IF bs = << >> THEN m
    ELSE StoreBytes(StoreByte(m, off, Head(bs)), off + 1, Tail(bs))

\* *(unsigned int *)(buf + off) = what sscanf converted
StoreUInt(m, off, r) ==
    LET bs == UIntBytes(r.val, SIZEOF_UINT)
    IN StoreBytes(m, off, IF r.neg THEN NegBytes(bs, 1) ELSE bs)

\* The loop of hex_to_binary: hex is the rest of the string, count the groups
\* converted so far, which is also the offset buf has reached (buf++).
RECURSIVE HexLoop(_, _, _)
HexLoop(m, hex, count) ==
    IF hex = << >>
    THEN \* *buf = 0; return count;
         [ret |-> count, mem |-> StoreByte(m, count, 0)]
    ELSE LET two  == Len(hex) >= 2            \* if( hex[1] )
             r    == IF two THEN ScanX(hex, 2) ELSE ScanX(hex, 1)
             m1   == IF r.ret = 1 THEN StoreUInt(m, count, r) ELSE m
             rest == IF two THEN Tail(Tail(hex)) ELSE Tail(hex)
         IN IF r.ret # 1
            THEN [ret |-> 0 - 1, mem |-> m1]
            ELSE HexLoop(m1, rest, count + 1)

\* hex_to_binary(buf, hex) on a buffer whose block holds the bytes data:
\* ret is the return value, mem the buffer afterwards.
hex_to_binary(data, hex) == HexLoop([data |-> data, oob |-> {}], hex, 0)

\* salt_len = strlen(argv[1])/2+3;  salt = calloc(salt_len, sizeof(char));
SaltAlloc(hex) == Fill(Len(hex) \div 2 + 3, 0)

\* --------------------------------------------------------------- state

VARIABLES
    argv,        \* the arguments after argv[0]; argc = Len(argv) + 1
    input,       \* all of standard input, as the bytes of the stream
    stdin,       \* the bytes of standard input not read yet
    pc,          \* where main is
    heap,        \* the blocks malloc has handed out, the freed ones included
    salt,        \* main's salt, a pointer
    salt_len,
    ic,
    result_len,
    result,      \* main's result, a pointer
    pass,        \* main's pass, a pointer
    pw_len,
    buff_len,
    c,           \* main's char c
    out,         \* what was written to stdout
    err,         \* which diagnostic was written to stderr ("" for none)
    exit_code,   \* the exit status once pc = "exit"
    kdf,         \* the arguments and outcome of the gcry_kdf_derive call
    oob,         \* offsets written past the end of the salt block
    hx_pc,       \* codec harness: "in", "encoded", "decoded"
    hx_bytes,    \* codec harness: the bytes given to print_hex
    hx_text,     \* codec harness: what print_hex wrote
    hx_dec       \* codec harness: what hex_to_binary returned for it

mainVars == << argv, input, stdin, pc, heap, salt, salt_len, ic, result_len,
               result, pass, pw_len, buff_len, c, out, err, exit_code, kdf,
               oob >>
hxVars == << hx_pc, hx_bytes, hx_text, hx_dec >>
vars == << mainVars, hxVars >>

\* ------------------------------------------------------------- the heap

\* A block of the heap.  live is FALSE once it was freed; its bytes stay as
\* they were when it was released.  replaced marks a block that realloc gave
\* up when it moved the passphrase to a larger one.
Block(kind, data) ==
    [kind |-> kind, data |-> data, live |-> TRUE, replaced |-> FALSE]

\* free(p)
Free(h, p) == [h EXCEPT ![p].live = FALSE]

\* for(i=0; i<n; i++) buf[i]=0;
ZeroFirst(data, n) ==
    [i \in 1..Len(data) |-> IF i <= n THEN 0 ELSE data[i]]

\* strlen: the offset of the first zero byte.  (Every call the program makes
\* finds one inside the block.)
Strlen(data) ==
    IF \E i \in 1..Len(data) : data[i] = 0
    THEN (CHOOSE i \in 1..Len(data) :
              data[i] = 0 /\ \A j \in 1..(i - 1) : data[j] # 0) - 1
    ELSE Len(data)

\* for(i=0; i<strlen(pass); i++) pass[i]=0;   strlen is evaluated again
\* before every iteration, on the bytes as the loop has left them.
RECURSIVE BlankPass(_, _)
BlankPass(data, i) ==
    IF i < Strlen(data)
    THEN BlankPass([data EXCEPT ![i + 1] = 0], i + 1)
    ELSE data

\* cleanup(result, result_len, pass, salt, salt_len): the heap afterwards
cleanup(h, res, res_len, pw, slt, slt_len) ==
    LET h1 == IF res # NULL
              THEN Free([h EXCEPT ![res].data = ZeroFirst(@, res_len)], res)
              ELSE h
        h2 == IF pw # NULL
              THEN Free([h1 EXCEPT ![pw].data = BlankPass(@, 0)], pw)
              ELSE h1
        h3 == IF slt # NULL
              THEN Free([h2 EXCEPT ![slt].data = ZeroFirst(@, slt_len)], slt)
              ELSE h2
    IN h3

\* getchar(): the next byte of the stream as an int, EOF at its end
Getchar(s) == IF s = << >> THEN EOF ELSE Head(s)

\* char c = <int>: the conversion to the signed 8-bit char
ToChar(v) == ((v + 128) % 256) - 128

\* the byte a char is stored as
ToByte(ch) == ch % 256

\* ------------------------------------------------------- the environment

\* characters of the salt_hex arguments drawn
SaltChars == {"a", "g", "-"}
\* every string of up to MaxSaltLen of them, and: white space before a
\* digit, two upper-case digits, the salt "0011" of the spec's scenario
SaltArgs == SeqsUpTo(SaltChars, MaxSaltLen)
              \cup { << " ", "a" >>, << "F", "F" >>, << "0", "0", "1", "1" >> }

\* the iteration_count and output_length arguments drawn
NumArgs == { << >>, << "0" >>, << "-", "1" >>, << "a" >>, << " " >>,
             << "2" >>, << "1", "a" >> }

\* the argument lists drawn: three arguments, or too few, or too many
ArgLists ==
    { << s, n, l >> : s \in SaltArgs, n \in NumArgs, l \in NumArgs }
      \cup { << >>, << << "a" >>, << "2" >> >>,
             << << "a" >>, << "2" >>, << "2" >>, << "2" >> >> }

\* byte values of the short inputs: NUL, newline, 'a', 0xFF
InputBytes == {0, 10, 97, 255}
\* three spaces and a newline; "test" and a newline
ScenarioInputs == { << 32, 32, 32, 10 >>, << 116, 101, 115, 116, 10 >> }
\* inputs longer than the first passphrase buffer
LongInputs ==
    { Fill(BLOCK_SIZE + k - 1, 97) \o << b >> : k \in 1..MaxOver, b \in {10, 97} }
Inputs == SeqsUpTo(InputBytes, MaxInputLen) \cup ScenarioInputs \cup LongInputs

\* values the uninitialised result_len may be read as
IndetInts == {0 - 1, 0, 1}

\* byte values of the keys gcry_kdf_derive may produce
KeyBytes == {10, 171}

NoKdf == [called |-> FALSE, ok |-> FALSE, pass |-> << >>, salt |-> << >>,
          ic |-> 0, keysize |-> 0]

\* ------------------------------------------------------------------ main

InitMain ==
    /\ pc = "args"
    /\ heap = << >>
    /\ salt = NULL /\ result = NULL /\ pass = NULL
    /\ salt_len = INDETERMINATE /\ result_len = INDETERMINATE
    /\ ic = 0 /\ pw_len = 0 /\ buff_len = BLOCK_SIZE
    /\ c = 0
    /\ out = << >> /\ err = "" /\ exit_code = 0
    /\ kdf = NoKdf
    /\ oob = {}

HxOff == hx_pc = "off" /\ hx_bytes = << >> /\ hx_text = << >> /\ hx_dec = << >>

Init ==
    /\ argv \in ArgLists
    /\ input \in Inputs
    /\ stdin = input
    /\ InitMain
    /\ HxOff

\* exit(code) after the diagnostic msg on stderr
Exit(code, msg) == pc' = "exit" /\ exit_code' = code /\ err' = msg

\* if ( argc != 4 ) { usage; exit(10); }
CheckArgs ==
    /\ pc = "args"
    /\ IF Len(argv) + 1 # 4 THEN Exit(10, "usage")
       ELSE pc' = "salt" /\ UNCHANGED << exit_code, err >>
    /\ UNCHANGED hxVars
    /\ UNCHANGED << argv, input, stdin, heap, salt, salt_len, ic, result_len,
                    result, pass, pw_len, buff_len, c, out, kdf, oob >>

\* salt = calloc(...); salt_len = hex_to_binary(salt, argv[1]);
\* if( salt_len <= 0 ) exit(1);
DecodeSalt ==
    /\ pc = "salt"
    /\ LET r == hex_to_binary(SaltAlloc(argv[1]), argv[1]) IN
         /\ heap' = Append(heap, Block("salt", r.mem.data))
         /\ salt' = Len(heap) + 1
         /\ salt_len' = r.ret
         /\ oob' = r.mem.oob
         /\ IF r.ret <= 0 THEN Exit(1, "salt")
            ELSE pc' = "count" /\ UNCHANGED << exit_code, err >>
    /\ UNCHANGED hxVars
    /\ UNCHANGED << argv, input, stdin, ic, result_len, result, pass, pw_len,
                    buff_len, c, out, kdf >>

\* The store past the end of the salt block is undefined: a build whose
\* allocator checks its blocks stops the process there.
DecodeSaltOverrun ==
    /\ pc = "salt"
    /\ LET r == hex_to_binary(SaltAlloc(argv[1]), argv[1]) IN
         /\ r.mem.oob # {}
         /\ heap' = Append(heap, Block("salt", r.mem.data))
         /\ salt' = Len(heap) + 1
         /\ oob' = r.mem.oob
         /\ Exit(134, "abort")
    /\ UNCHANGED hxVars
    /\ UNCHANGED << argv, input, stdin, salt_len, ic, result_len, result,
                    pass, pw_len, buff_len, c, out, kdf >>

\* if( sscanf(argv[2], "%d", &ic) == 0 || ic<=0) exit(1);
ParseCount ==
    /\ pc = "count"
    /\ LET r == ScanD(argv[2]) IN
         /\ ic' = IF r.ret = 1 THEN r.val ELSE ic
         /\ IF r.ret = 0 \/ ic' <= 0 THEN Exit(1, "count")
            ELSE pc' = "len" /\ UNCHANGED << exit_code, err >>
    /\ UNCHANGED hxVars
    /\ UNCHANGED << argv, input, stdin, heap, salt, salt_len, result_len,
                    result, pass, pw_len, buff_len, c, out, kdf, oob >>

\* if( sscanf(argv[3], "%d", &result_len) == 0 || result_len<=0) exit(1);
\* result_len has no initialiser: when sscanf stores nothing and returns EOF,
\* the comparison reads an indeterminate value.
ParseLen ==
    /\ pc = "len"
    /\ LET r == ScanD(argv[3]) IN
         /\ \/ r.ret = 1 /\ result_len' = r.val
            \/ r.ret = 0 /\ result_len' = result_len
            \/ r.ret = EOF /\ result_len' \in IndetInts
         /\ IF r.ret = 0 \/ result_len' <= 0 THEN Exit(1, "len")
            ELSE pc' = "pass" /\ UNCHANGED << exit_code, err >>
    /\ UNCHANGED hxVars
    /\ UNCHANGED << argv, input, stdin, heap, salt, salt_len, ic, result,
                    pass, pw_len, buff_len, c, out, kdf, oob >>

\* pass = calloc(buff_len, sizeof(char));  char c = getchar();
AllocPass ==
    /\ pc = "pass"
    /\ heap' = Append(heap, Block("pass", Fill(buff_len, 0)))
    /\ pass' = Len(heap) + 1
    /\ c' = ToChar(Getchar(stdin))
    /\ stdin' = IF stdin = << >> THEN stdin ELSE Tail(stdin)
    /\ pc' = "loop"
    /\ UNCHANGED hxVars
    /\ UNCHANGED << argv, input, salt, salt_len, ic, result_len, result,
                    pw_len, buff_len, out, err, exit_code, kdf, oob >>

\* pass[pw_len] = c;  pw_len++;  c = getchar();   on the heap h, through p
StoreChar(h, p) ==
    /\ heap' = [h EXCEPT ![p].data[pw_len + 1] = ToByte(c)]
    /\ pw_len' = pw_len + 1
    /\ c' = ToChar(Getchar(stdin))
    /\ stdin' = IF stdin = << >> THEN stdin ELSE Tail(stdin)

\* One turn of while (c != EOF) with room left in the buffer
ReadChar ==
    /\ pc = "loop" /\ c # EOF
    /\ pw_len # buff_len
    /\ StoreChar(heap, pass)
    /\ UNCHANGED hxVars
    /\ UNCHANGED << argv, input, pc, salt, salt_len, ic, result_len, result,
                    pass, buff_len, out, err, exit_code, kdf, oob >>

\* One turn of the loop with the buffer full; realloc enlarges the block
\* where it is.  The bytes it adds are indeterminate.
ReadCharGrowInPlace ==
    /\ pc = "loop" /\ c # EOF
    /\ pw_len = buff_len
    /\ buff_len' = buff_len * 2
    /\ StoreChar([heap EXCEPT ![pass].data = @ \o Fill(buff_len, INDETERMINATE)],
                 pass)
    /\ UNCHANGED hxVars
    /\ UNCHANGED << argv, input, pc, salt, salt_len, ic, result_len, result,
                    pass, out, err, exit_code, kdf, oob >>

\* One turn of the loop with the buffer full; realloc allocates a new block,
\* copies the old bytes into it and frees the old block as it is.
ReadCharGrowMove ==
    /\ pc = "loop" /\ c # EOF
    /\ pw_len = buff_len
    /\ buff_len' = buff_len * 2
    /\ pass' = Len(heap) + 1
    /\ StoreChar(Append([heap EXCEPT ![pass].live = FALSE,
                                     ![pass].replaced = TRUE],
                        Block("pass", heap[pass].data
                                        \o Fill(buff_len, INDETERMINATE))),
                 Len(heap) + 1)
    /\ UNCHANGED hxVars
    /\ UNCHANGED << argv, input, pc, salt, salt_len, ic, result_len, result,
                    out, err, exit_code, kdf, oob >>

\* One turn of the loop with the buffer full; realloc fails: it returns NULL
\* and leaves the old block allocated.
\* if (!pass) { cleanup(result, result_len, pass, salt, salt_len); exit(3); }
ReadCharGrowFail ==
    /\ pc = "loop" /\ c # EOF
    /\ pw_len = buff_len
    /\ buff_len' = buff_len * 2
    /\ pass' = NULL
    /\ heap' = cleanup(heap, result, result_len, NULL, salt, salt_len)
    /\ Exit(3, "alloc")
    /\ UNCHANGED hxVars
    /\ UNCHANGED << argv, input, stdin, salt, salt_len, ic, result_len,
                    result, pw_len, c, out, kdf, oob >>

\* The loop has ended:  if (pw_len <= 1) { cleanup(...); exit(1); }
EmptyPassword ==
    /\ pc = "loop" /\ c = EOF
    /\ pw_len <= 1
    /\ heap' = cleanup(heap, result, result_len, pass, salt, salt_len)
    /\ Exit(1, "empty")
    /\ UNCHANGED hxVars
    /\ UNCHANGED << argv, input, stdin, salt, salt_len, ic, result_len,
                    result, pass, pw_len, buff_len, c, out, kdf, oob >>

\* The loop has ended:  pass[pw_len-1] = '\0';
StripLast ==
    /\ pc = "loop" /\ c = EOF
    /\ pw_len > 1
    /\ heap' = [heap EXCEPT ![pass].data[pw_len] = 0]
    /\ pc' = "kdf"
    /\ UNCHANGED hxVars
    /\ UNCHANGED << argv, input, stdin, salt, salt_len, ic, result_len,
                    result, pass, pw_len, buff_len, c, out, err, exit_code,
                    kdf, oob >>

\* result = calloc(result_len, sizeof(unsigned char*));
ResultAlloc == Block("result", Fill(result_len * SIZEOF_PTR, 0))

\* result = calloc(...);  gcry_check_version fails:
\* cleanup(result, result_len, pass, salt, salt_len); exit (2);
VersionMismatch ==
    /\ pc = "kdf"
    /\ result' = Len(heap) + 1
    /\ heap' = cleanup(Append(heap, ResultAlloc), Len(heap) + 1, result_len,
                       pass, salt, salt_len)
    /\ Exit(2, "version")
    /\ UNCHANGED hxVars
    /\ UNCHANGED << argv, input, stdin, salt, salt_len, ic, result_len, pass,
                    pw_len, buff_len, c, out, kdf, oob >>

\* result = calloc(...);  gcry_check_version succeeds;  gcry_control x 3
InitGcrypt ==
    /\ pc = "kdf"
    /\ result' = Len(heap) + 1
    /\ heap' = Append(heap, ResultAlloc)
    /\ pc' = "derive"
    /\ UNCHANGED hxVars
    /\ UNCHANGED << argv, input, stdin, salt, salt_len, ic, result_len, pass,
                    pw_len, buff_len, c, out, err, exit_code, kdf, oob >>

\* the arguments of gcry_kdf_derive(pass, pw_len-1, GCRY_KDF_PBKDF2,
\* GCRY_MD_SHA1, salt, salt_len, ic, result_len, result)
KdfCall(ok) ==
    [called |-> TRUE, ok |-> ok,
     pass |-> SubSeq(heap[pass].data, 1, pw_len - 1),
     salt |-> SubSeq(heap[salt].data, 1, salt_len),
     ic |-> ic, keysize |-> result_len]

\* gcry_kdf_derive succeeds and fills result with result_len key bytes.  The
\* value it returns is not looked at.
Derive ==
    /\ pc = "derive"
    /\ \E key \in [1..result_len -> KeyBytes] :
         heap' = [heap EXCEPT ![result].data =
                     [i \in 1..Len(@) |-> IF i <= result_len THEN key[i] ELSE @[i]]]
    /\ kdf' = KdfCall(TRUE)
    /\ pc' = "print"
    /\ UNCHANGED hxVars
    /\ UNCHANGED << argv, input, stdin, salt, salt_len, ic, result_len,
                    result, pass, pw_len, buff_len, c, out, err, exit_code,
                    oob >>

\* gcry_kdf_derive fails and returns an error code; result stays as calloc
\* left it.  The value it returns is not looked at.
DeriveError ==
    /\ pc = "derive"
    /\ kdf' = KdfCall(FALSE)
    /\ pc' = "print"
    /\ UNCHANGED hxVars
    /\ UNCHANGED << argv, input, stdin, heap, salt, salt_len, ic, result_len,
                    result, pass, pw_len, buff_len, c, out, err, exit_code,
                    oob >>

\* print_hex(result, result_len);
PrintKey ==
    /\ pc = "print"
    /\ out' = out \o print_hex(heap[result].data, result_len)
    /\ pc' = "cleanup"
    /\ UNCHANGED hxVars
    /\ UNCHANGED << argv, input, stdin, heap, salt, salt_len, ic, result_len,
                    result, pass, pw_len, buff_len, c, err, exit_code, kdf,
                    oob >>

\* cleanup(result, result_len, pass, salt, salt_len);  return(0);
Finish ==
    /\ pc = "cleanup"
    /\ heap' = cleanup(heap, result, result_len, pass, salt, salt_len)
    /\ pc' = "exit" /\ exit_code' = 0
    /\ UNCHANGED hxVars
    /\ UNCHANGED << argv, input, stdin, salt, salt_len, ic, result_len,
                    result, pass, pw_len, buff_len, c, out, err, kdf, oob >>

Next ==
    \/ CheckArgs
    \/ DecodeSalt
    \/ DecodeSaltOverrun
    \/ ParseCount
    \/ ParseLen
    \/ AllocPass
    \/ ReadChar
    \/ ReadCharGrowInPlace
    \/ ReadCharGrowMove
    \/ ReadCharGrowFail
    \/ EmptyPassword
    \/ StripLast
    \/ VersionMismatch
    \/ InitGcrypt
    \/ Derive
    \/ DeriveError
    \/ PrintKey
    \/ Finish

Spec == Init /\ [][Next]_vars

\* ----------------------------------------------------- the codec harness

\* byte sequences given to print_hex: every single byte, and the sequences
\* of up to MaxHexBytes of the bytes in HexSample
HexSample == {0, 9, 10, 15, 16, 127, 128, 171, 255}
ByteSeqs == { << b >> : b \in 0..255 } \cup SeqsUpTo(HexSample, MaxHexBytes)

InitHex ==
    /\ argv = << >> /\ input = << >> /\ stdin = << >>
    /\ InitMain
    /\ hx_pc = "in"
    /\ hx_bytes \in ByteSeqs
    /\ hx_text = << >>
    /\ hx_dec = << >>

\* print_hex(hx_bytes, len)
HexEncode ==
    /\ hx_pc = "in"
    /\ hx_text' = print_hex(hx_bytes, Len(hx_bytes))
    /\ hx_pc' = "encoded"
    /\ UNCHANGED << hx_bytes, hx_dec >>
    /\ UNCHANGED mainVars

\* hex_to_binary on the text without its newline, into a buffer allocated
\* as main allocates the one for its salt
HexDecode ==
    /\ hx_pc = "encoded"
    /\ LET hex == SubSeq(hx_text, 1, Len(hx_text) - 1) IN
         hx_dec' = hex_to_binary(SaltAlloc(hex), hex)
    /\ hx_pc' = "decoded"
    /\ UNCHANGED << hx_bytes, hx_text >>
    /\ UNCHANGED mainVars

NextHex == HexEncode \/ HexDecode

SpecHex == InitHex /\ [][NextHex]_vars

\* ------------------------------------------------------------- claims

\* every byte of a block is zero, or was never written
Zeroed(data) == \A i \in 1..Len(data) : data[i] \in {0, INDETERMINATE}

\* the blocks of the heap of the kinds given
BlocksOf(kinds) == { i \in 1..Len(heap) : heap[i].kind \in kinds }

\* an argument that is a positive base-10 integer: digits only, value > 0
IsPositiveInt(s) ==
    /\ s # << >>
    /\ \A i \in 1..Len(s) : IsDigit(s[i])
    /\ DigitsVal(s, 10) > 0

\* a salt_hex of whole bytes: an even, non-zero number of hexadecimal digits
IsHexBytes(s) ==
    /\ s # << >> /\ Len(s) % 2 = 0
    /\ \A i \in 1..Len(s) : IsXDigit(s[i])

\* the run was given three well-formed arguments
GoodArgs ==
    /\ Len(argv) = 3
    /\ IsHexBytes(argv[1]) /\ IsPositiveInt(argv[2]) /\ IsPositiveInt(argv[3])

\* C1: on every exit path taken after the passphrase buffer or the
\* derived-key buffer was created, every byte of that buffer that held
\* passphrase or key material is zero when its storage is freed or the
\* process exits.  (Stated for the runs with well-formed arguments.)
C1_SecretsZeroAtExit ==
    (GoodArgs /\ pc = "exit") =>
        \A i \in BlocksOf({"pass", "result"}) :
            heap[i].replaced \/ Zeroed(heap[i].data)

\* C2: for every stdin b_1..b_n with n >= 2 the read loop ends exactly at
\* the end of the stream, having stored all n bytes, and the passphrase
\* handed to gcry_kdf_derive is b_1..b_(n-1), of length n-1.  (Stated for
\* the runs with well-formed arguments.)
C2_PassphraseIsAllButLastByte ==
    (GoodArgs /\ Len(input) >= 2) =>
        /\ (c = EOF => (stdin = << >> /\ pw_len = Len(input)))
        /\ (kdf.called => kdf.pass = SubSeq(input, 1, Len(input) - 1))

\* stdin without its single trailing line terminator (a newline, byte 10),
\* when it ends in one
StripTerminator(s) ==
    IF s # << >> /\ s[Len(s)] = 10 THEN SubSeq(s, 1, Len(s) - 1) ELSE s

\* C3: every byte of stdin is significant except a single trailing line
\* terminator: the passphrase handed to the KDF is stdin with at most that
\* terminator removed, so inputs differing elsewhere give different
\* passphrases and a byte that is no line terminator is never removed.
\* (Stated for the runs with well-formed arguments.)
C3_OnlyATerminatorIsRemoved ==
    (GoodArgs /\ kdf.called) => kdf.pass = StripTerminator(input)

\* C4: a run that ends in a failure, a failing derivation included, has
\* written nothing to stdout and exits with a non-zero code; the key is
\* printed and 0 returned only when the derivation succeeded.
\* (Stated for the runs that fail on their arguments and the runs with
\* well-formed arguments.)
C4_OutputOnlyOnSuccess ==
    (pc = "exit" /\ (GoodArgs \/ err \in {"usage", "salt", "count", "len"})) =>
        /\ (out # << >> \/ exit_code = 0) => (kdf.called /\ kdf.ok)
        /\ ~(kdf.called /\ kdf.ok) => (out = << >> /\ exit_code # 0)

\* C5: when iteration_count or output_length is 0, negative or non-numeric,
\* main exits with code 1 before it reads a passphrase byte and without
\* calling gcry_kdf_derive; the derivation is reached only with ic > 0 and
\* result_len > 0 taken from the arguments.  (Stated for the runs whose
\* salt_hex is well formed.)
C5_BadNumbersAreRejected ==
    (Len(argv) = 3 /\ IsHexBytes(argv[1])) =>
        /\ (~IsPositiveInt(argv[2]) \/ ~IsPositiveInt(argv[3])) =>
              (/\ pass = NULL /\ stdin = input /\ ~kdf.called
               /\ (pc = "exit" /\ err # "abort") => exit_code = 1)
        /\ kdf.called =>
              (/\ kdf.ic > 0 /\ kdf.keysize > 0
               /\ IsPositiveInt(argv[2]) /\ kdf.ic = DigitsVal(argv[2], 10)
               /\ IsPositiveInt(argv[3]) /\ kdf.keysize = DigitsVal(argv[3], 10))

\* C6: a stdin of zero bytes, or of one line terminator only, is rejected
\* as an empty passphrase (exit code 1, no derivation, nothing on stdout);
\* an input that leaves at least one byte once its last byte is stripped is
\* not rejected as empty.  (Stated for the runs with well-formed arguments.)
C6_EmptyIffNoContent ==
    GoodArgs =>
    /\ input \in { << >>, << 10 >> } =>
          (/\ ~kdf.called /\ out = << >>
           /\ (pc = "exit" /\ pass # NULL) => (err = "empty" /\ exit_code = 1))
    /\ Len(input) >= 2 => err # "empty"

\* C7: hex_to_binary fails, and main exits 1 with the invalid-salt
\* diagnostic, for every salt string holding a character that is not a
\* hexadecimal digit: no such string is accepted as a salt.
C7_NonHexSaltIsRejected ==
    (/\ Len(argv) = 3
     /\ \E i \in 1..Len(argv[1]) : ~IsXDigit(argv[1][i])
     /\ pc \notin {"args", "salt"})
        => (/\ pc = "exit"
            /\ err \in {"salt", "abort"}
            /\ err = "salt" => exit_code = 1)

\* C8: decoding with hex_to_binary the text print_hex produced (without its
\* newline) returns the same length and the same bytes in the same order,
\* and print_hex emits exactly two lowercase hex digits per byte.
C8_HexRoundTrip ==
    /\ hx_pc \in {"encoded", "decoded"} =>
          (/\ Len(hx_text) = 2 * Len(hx_bytes) + 1
           /\ hx_text[Len(hx_text)] = "\n"
           /\ \A i \in 1..(Len(hx_text) - 1) : hx_text[i] \in Range(LowerHex))
    /\ hx_pc = "decoded" =>
          (/\ hx_dec.ret = Len(hx_bytes)
           /\ SubSeq(hx_dec.mem.data, 1, hx_dec.ret) = hx_bytes)

\* C8 witness: two bytes, the first below 16, went through print_hex and
\* came back from hex_to_binary
C8_Witness ==
    /\ hx_pc = "decoded"
    /\ Len(hx_bytes) = 2 /\ hx_bytes[1] < 16 /\ hx_bytes[2] > 127
    /\ hx_dec.ret = 2

\* C9: when the passphrase buffer grows, no passphrase bytes stay in storage
\* released without being zeroed: the old storage that growth replaces is
\* zeroized before it is released, and when growth fails (exit code 3) the
\* bytes already read are zeroized before the process exits.  (Stated for
\* the runs with well-formed arguments.)
C9_GrowthLeavesNoResidue ==
    GoodArgs =>
    \A i \in BlocksOf({"pass"}) :
        /\ (heap[i].replaced => Zeroed(heap[i].data))
        /\ ((pc = "exit" /\ exit_code = 3) => Zeroed(heap[i].data))

\* C10: every byte hex_to_binary writes, the four of each sscanf store and
\* the final null terminator, lies within the strlen/2 + 3 bytes main
\* allocated for the salt.
C10_SaltWritesInBounds == oob = {}

=============================================================================
